---- MODULE Spec2Model ----
(***************************************************************************)
(* State-machine model of the maestro front-end components:                *)
(*   - NotesTab      (paginated notes, store reconciliation, filtering)    *)
(*   - WritingChatPanel (send / regenerate / delete error handling)        *)
(*                                                                         *)
(* React is modelled as it schedules: an event handler, or the             *)
(* continuation of an `await`, runs to completion; the state updates it    *)
(* queued are then committed in one render, and the effects whose          *)
(* dependencies changed run after that render, reading state from the      *)
(* render's closure and refs live.  One action = handler + renders +       *)
(* effects until the component is stable.                                  *)
(*                                                                         *)
(* A list of notes is kept as the sequence of its maximal runs of          *)
(* consecutive server positions, [m, lo, hi] standing for the notes        *)
(* <<m,lo>>, <<m,lo+1>>, ..., <<m,hi>> of mission m.  Every list of the    *)
(* program is a concatenation of server slices, so the encoding is exact,  *)
(* and two lists are equal iff their run sequences are equal.              *)
(***************************************************************************)
EXTENDS Integers, Sequences, FiniteSets, TLC

\* ------------------------------------------------------------------ bounds
MaxRequests == 3      \* notes requests issued in one behaviour
MaxPushes   == 1      \* push updates delivered in one behaviour
MaxNotes    == 2      \* notes in a list the filters are applied to
MaxChatOps  == 3      \* chat operations started in one behaviour
MaxExports  == 1      \* exports made in one behaviour
MaxChanges  == 2      \* tool-setting changes made in one behaviour
MaxTicks    == 7      \* time steps taken in one behaviour
MaxReconciliations == 2  \* push updates delivered while the scroll offset is watched
MaxContextFetches  == 2  \* context requests issued for one mission in one behaviour
MaxLogs     == 2      \* log entries the activity log is given

\* --------------------------------------------------------- program constants
PageSize              == 100      \* fetchNotesAPI(100, ...)
LoadAllLimit          == 999999   \* fetchNotesAPI(999999, 0)
NotificationThreshold == 5        \* newNotesCount >= 5
DebounceDelay         == 500      \* setTimeout(() => saveToolSettings(), 500)
SettingsLoadDelay     == 100      \* setTimeout(() => setIsLoadingChatSettings(false), 100)
Tick                  == 100      \* the step of the clock, in ms

Missions   == {1, 2}
NoMission  == 0                   \* previousMissionId.current = null
InitCounts == {104, 205}          \* notes mission 1 may hold on the server at the start; mission 2 holds 3
ScrollOffsets == {0, 40, 80}      \* scroll offsets of the notes container
GrowSizes  == {0, 1}              \* notes the server has created when a push update is sent
Chats      == {1, 2}              \* ids of the chats of the writing store
NoChat     == 0                   \* activeChat is null
Groups     == {1}                 \* ids of the document groups
NoGroup    == 0                   \* selectedGroupId is null
NoTools    == <<>>                \* activeChat.settings?.tools is undefined
\* the keys other than tools of each chat's settings, as key/value pairs: the
\* second chat has none
OtherKeys  == [c \in Chats |-> IF c = 1 THEN {<<"k", "v">>} ELSE {}]
MessageIds == {1}                 \* ids of the chat messages the writing store may hold

Min(a, b) == IF a < b THEN a ELSE b
Max(a, b) == IF a > b THEN a ELSE b

\* ------------------------------------------------------------- note lists
Run(m, lo, hi) == [m |-> m, lo |-> lo, hi |-> hi]

\* activeMission.notes is undefined: told from every list by its run of no mission
Undefined == <<Run(NoMission, 0, 0)>>

\* array.length
NotesLen(l) ==
  LET F[i \in 0..Len(l)] == IF i = 0 THEN 0 ELSE F[i-1] + (l[i].hi - l[i].lo + 1)
  IN F[Len(l)]

\* arr[arr.length - 1].note_id, or null (<<>>) for the empty array
LastNoteId(l) == IF Len(l) = 0 THEN <<>> ELSE <<l[Len(l)].m, l[Len(l)].hi>>

\* [...prev, ...newNotes]
Concat(prev, newNotes) ==
  IF Len(newNotes) = 0 THEN prev
  ELSE IF Len(prev) = 0 THEN newNotes
  ELSE LET a == prev[Len(prev)]
           b == newNotes[1]
       IN IF a.m = b.m /\ a.hi + 1 = b.lo
          THEN SubSeq(prev, 1, Len(prev) - 1) \o <<Run(a.m, a.lo, b.hi)>> \o Tail(newNotes)
          ELSE prev \o newNotes

\* the notes of the list, one by one
Expand(l) ==
  LET F[i \in 0..Len(l)] ==
        IF i = 0 THEN <<>>
        ELSE F[i-1] \o [k \in 1..(l[i].hi - l[i].lo + 1) |-> <<l[i].m, l[i].lo + k - 1>>]
  IN F[Len(l)]

\* no note identifier occurs twice in the list
NoDuplicates(l) ==
  \A i, j \in 1..Len(l) :
     i < j => ~(l[i].m = l[j].m /\ l[i].lo <= l[j].hi /\ l[j].lo <= l[i].hi)

\* ------------------------------------------------------------------ state
VARIABLES
  missionId,            \* prop of NotesTab
  notes,                \* useState<Note[]>([])
  isLoading,            \* useState(false)
  isLoadingMore,        \* useState(false)
  hasMoreNotes,         \* useState(true)
  totalNotesCount,      \* useState(0)
  initialLoadDone,      \* useRef(false)
  previousMissionId,    \* useRef<string | null>(null)
  lastScrollPosition,   \* useRef<number>(0)
  scrollTop,            \* scrollContainerRef.current.scrollTop
  toastTimers,          \* pending setTimeout(addToast 'New Research Notes', 500)
  restoreTimers,        \* pending setTimeout(restoreScrollPosition, 50), oldest first: for
                        \* each the scroll offset when its reconciliation began
  toasts,               \* 'New Research Notes' toasts added
  inflight,             \* notes requests awaiting their response
  requests,             \* notes requests issued so far
  failures,             \* notes requests that failed so far
  activeMission,        \* id of the store's activeMission
  storeNotes,           \* the store's notes, per mission
  serverCount,          \* notes each mission holds on the server
  pushes                \* push updates delivered

notesVars == <<missionId, notes, isLoading, isLoadingMore, hasMoreNotes, totalNotesCount,
               initialLoadDone, previousMissionId, lastScrollPosition, scrollTop,
               toastTimers, restoreTimers, toasts, inflight, requests, failures,
               activeMission, storeNotes, serverCount, pushes>>

VARIABLES
  searchTerm,           \* useState('')
  selectedFilter,       \* useState<'all' | 'web' | 'documents'>('all')
  downloads,            \* the text files handleExportNotes has had the browser download
  exportToasts          \* 'Notes Exported' toasts added

filterVars == <<searchTerm, selectedFilter, downloads, exportToasts>>

VARIABLES
  message,              \* WritingChatPanel: useState('')
  sessionLoading,       \* writing store: loading flag of the current session
  agentStatus,          \* writing store: getCurrentAgentStatus()
  messages,             \* writing store: ids of getCurrentMessages()
  chatInflight,         \* store calls of the panel awaiting their result
  chatOps,              \* store calls started so far
  errorToasts,          \* titles of the error toasts added, in order
  chatFailures,         \* store calls that failed so far
  uncaught              \* rejections that escaped their handler

chatVars == <<message, sessionLoading, agentStatus, messages, chatInflight, chatOps,
              errorToasts, chatFailures, uncaught>>

VARIABLES
  activeChat,             \* writing store: id of the active chat, NoChat for none
  chatTools,              \* writing store: settings.tools of each chat, NoTools for none
  chatKeys,               \* writing store: the other keys of each chat's settings
  selectedGroupId,        \* useState<string | null>(null)
  searchSettings,         \* useState({useWebSearch: false, deepSearch: false, ...})
  isLoadingChatSettings,  \* useState(false)
  saveTimer,              \* the pending setTimeout(saveToolSettings, 500), if any
  loadTimers,             \* due times of the pending setTimeout(..., 100)
  now,                    \* the time, in ms
  puts,                   \* PUT /api/chats/{id} requests sent, in order
  putInflight,            \* PUT requests awaiting their response
  changes,                \* tool-setting changes the user has made
  lastChange,             \* the last of them made with a chat active: when, chat, values
  bursts                  \* bursts of such changes so far

settingsVars == <<activeChat, chatTools, chatKeys, selectedGroupId, searchSettings,
                  isLoadingChatSettings, saveTimer, loadTimers, now, puts, putInflight,
                  changes, lastChange, bursts>>

VARIABLES
  tabsMissionId,          \* ResearchTabs: the missionId prop, NoMission before it is mounted
  missionContexts,        \* mission store: missionContexts[m], <<>> for none
  contextFetches,         \* fetchMissionContext calls made so far, per mission
  contextInflight,        \* fetchMissionContext calls awaiting their result, per mission
  logs,                   \* AgentActivityLog: the logs prop
  logProps,               \* its props hasMore, onLoadMore, onLoadAll, isLoadingMore, totalLogs
  expandedLogs,           \* useState<Set<number>>(new Set())
  logControls             \* the load controls of its last render

viewVars == <<tabsMissionId, missionContexts, contextFetches, contextInflight, logs,
              logProps, expandedLogs, logControls>>

vars == <<notesVars, filterVars, chatVars, settingsVars, viewVars>>

\* the component, its refs, its timers and its collaborators as one record
Cur ==
  [missionId |-> missionId, notes |-> notes, isLoading |-> isLoading,
   isLoadingMore |-> isLoadingMore, hasMoreNotes |-> hasMoreNotes,
   totalNotesCount |-> totalNotesCount, initialLoadDone |-> initialLoadDone,
   previousMissionId |-> previousMissionId, lastScrollPosition |-> lastScrollPosition,
   scrollTop |-> scrollTop, toastTimers |-> toastTimers, restoreTimers |-> restoreTimers,
   toasts |-> toasts, inflight |-> inflight, requests |-> requests,
   failures |-> failures,
   activeMission |-> activeMission, storeNotes |-> storeNotes]

\* the state s is computed once, then assigned
Commit(s) ==
  \E t \in {s} :
     /\ missionId' = t.missionId
     /\ notes' = t.notes
     /\ isLoading' = t.isLoading
     /\ isLoadingMore' = t.isLoadingMore
     /\ hasMoreNotes' = t.hasMoreNotes
     /\ totalNotesCount' = t.totalNotesCount
     /\ initialLoadDone' = t.initialLoadDone
     /\ previousMissionId' = t.previousMissionId
     /\ lastScrollPosition' = t.lastScrollPosition
     /\ scrollTop' = t.scrollTop
     /\ toastTimers' = t.toastTimers
     /\ restoreTimers' = t.restoreTimers
     /\ toasts' = t.toasts
     /\ inflight' = t.inflight
     /\ requests' = t.requests
     /\ failures' = t.failures
     /\ activeMission' = t.activeMission
     /\ storeNotes' = t.storeNotes
     /\ UNCHANGED <<filterVars, chatVars, settingsVars, viewVars>>

\* ----------------------------------------------------------- the backend
\* GET /api/missions/{m}/notes?limit=&offset= against a mission holding n notes
ServerSlice(m, n, limit, offset) ==
  IF offset + 1 > Min(offset + limit, n) THEN <<>>
  ELSE <<Run(m, offset + 1, Min(offset + limit, n))>>

\* { notes, total, has_more }, or the bare array of the legacy format
ServerResponse(r, n, legacy) ==
  LET page == ServerSlice(r.m, n, r.limit, r.offset)
  IN [legacy |-> legacy, notes |-> page, total |-> n,
      has_more |-> r.offset + NotesLen(page) < n]

\* --------------------------------------------------------------- the store
\* useMissionStore().setMissionNotes(missionId, notes)
setMissionNotes(s, m, list) == [s EXCEPT !.storeNotes[m] = list]

\* ----------------------------------------------------------- NotesTab.tsx
\* what the claims about a failed fetch compare with
Shown(s) == [notes |-> s.notes, totalNotesCount |-> s.totalNotesCount,
             hasMoreNotes |-> s.hasMoreNotes]

\* apiClient.get(`/api/missions/${missionId}/notes?limit=${limit}&offset=${offset}`);
\* the request remembers what its operation closed over (missionId, currentLength),
\* the notes the backend held when it was sent (seen) and, for the claims, what was
\* displayed when the operation was invoked (entry) and when the request was sent
\* (issued)
fetchNotesAPI(s, entry, kind, limit, offset, currentLength) ==
  [s EXCEPT !.inflight = Append(@, [kind |-> kind, m |-> s.missionId, limit |-> limit,
                                    offset |-> offset, currentLength |-> currentLength,
                                    seen |-> serverCount[s.missionId],
                                    entry |-> Shown(entry),
                                    issued |-> Shown(s)]),
            !.requests = @ + 1]

\* data.notes || data
DataNotes(data) == data.notes
\* data.total || fallback
DataTotal(data, fallback) ==
  IF ~data.legacy /\ data.total # 0 THEN data.total ELSE fallback
\* data.has_more !== undefined ? data.has_more : fallback
DataHasMore(data, fallback) == IF ~data.legacy THEN data.has_more ELSE fallback

\* an initial load that does not look at initialLoadDone
loadInitialAlways(s) ==
  fetchNotesAPI([s EXCEPT !.isLoading = TRUE, !.previousMissionId = s.missionId],
                s, "initial", PageSize, 0, 0)

\* loadInitialNotes up to its await
loadInitialNotes(s) ==
  LET s1 == IF s.previousMissionId # s.missionId
            THEN [s EXCEPT !.initialLoadDone = FALSE,
                           !.previousMissionId = s.missionId,
                           !.notes = <<>>,
                           !.totalNotesCount = 0]
            ELSE s
  IN IF s1.initialLoadDone THEN s1
     ELSE fetchNotesAPI([s1 EXCEPT !.isLoading = TRUE], s, "initial", PageSize, 0, 0)

\* loadInitialNotes after its await: the try block and the finally
loadInitialNotesResolved(s, r, data) ==
  LET newNotes == DataNotes(data)
      total    == DataTotal(data, NotesLen(newNotes))
      hasMore  == DataHasMore(data, total > PageSize)
      s1       == setMissionNotes([s EXCEPT !.notes = newNotes], r.m, newNotes)
  IN [s1 EXCEPT !.totalNotesCount = total,
                !.hasMoreNotes = hasMore,
                !.initialLoadDone = TRUE,
                !.isLoading = FALSE]

\* a catch block that gives up what is displayed
rejectedClearsNotes(s) == [s EXCEPT !.isLoading = FALSE, !.notes = <<>>]

\* loadInitialNotes after its await: the catch block and the finally
loadInitialNotesRejected(s) == [s EXCEPT !.isLoading = FALSE]

\* a load-more that asks for the first page again
loadMoreFromStart(s) ==
  IF ~s.hasMoreNotes \/ s.isLoadingMore THEN s
  ELSE fetchNotesAPI([s EXCEPT !.isLoadingMore = TRUE], s, "more", PageSize,
                     0, NotesLen(s.notes))

\* loadMoreNotes up to its await
loadMoreNotes(s) ==
  IF ~s.hasMoreNotes \/ s.isLoadingMore THEN s
  ELSE fetchNotesAPI([s EXCEPT !.isLoadingMore = TRUE], s, "more", PageSize,
                     NotesLen(s.notes), NotesLen(s.notes))

loadMoreNotesResolved(s, r, data) ==
  LET newNotes == DataNotes(data)
      total    == DataTotal(data, r.currentLength + NotesLen(newNotes))
      hasMore  == DataHasMore(data, total > r.currentLength + NotesLen(newNotes))
      updated  == Concat(s.notes, newNotes)
      s1       == setMissionNotes([s EXCEPT !.notes = updated], r.m, updated)
  IN [s1 EXCEPT !.totalNotesCount = total,
                !.hasMoreNotes = hasMore,
                !.isLoadingMore = FALSE]

\* a failure handler that sends the request again
rejectedRetries(s) ==
  fetchNotesAPI(s, s, "more", PageSize, NotesLen(s.notes), NotesLen(s.notes))

loadMoreNotesRejected(s) == [s EXCEPT !.isLoadingMore = FALSE]

\* loadAllNotes up to its await
loadAllNotes(s) ==
  IF ~s.hasMoreNotes THEN s
  ELSE fetchNotesAPI([s EXCEPT !.isLoading = TRUE], s, "all", LoadAllLimit, 0, 0)

\* a load-all that appends the response to what is displayed
loadAllAppends(s, r, data) ==
  LET allNotes == Concat(s.notes, DataNotes(data))
      total    == DataTotal(data, NotesLen(allNotes))
      s1       == setMissionNotes([s EXCEPT !.notes = allNotes], r.m, allNotes)
  IN [s1 EXCEPT !.totalNotesCount = total,
                !.hasMoreNotes = FALSE,
                !.isLoading = FALSE]

loadAllNotesResolved(s, r, data) ==
  LET allNotes == DataNotes(data)
      total    == DataTotal(data, NotesLen(allNotes))
      s1       == setMissionNotes([s EXCEPT !.notes = allNotes], r.m, allNotes)
  IN [s1 EXCEPT !.totalNotesCount = total,
                !.hasMoreNotes = FALSE,
                !.isLoading = FALSE]

\* a failure handler that also empties the mission's notes in the store
rejectedClearsStore(s) ==
  setMissionNotes([s EXCEPT !.isLoading = FALSE], s.missionId, <<>>)

loadAllNotesRejected(s) == [s EXCEPT !.isLoading = FALSE]

\* a reconciliation that does not record the scroll offset
forgetsScrollPosition(s) == s

\* preserveScrollPosition()
preserveScrollPosition(s) == [s EXCEPT !.lastScrollPosition = s.scrollTop]
\* restoreScrollPosition()
restoreScrollPosition(s) == [s EXCEPT !.scrollTop = s.lastScrollPosition]

\* a reconciliation off by one: only more than five new notes notify
notifyAboveThreshold(newNotesCount) == newNotesCount > NotificationThreshold

\* if (newNotesCount >= 5)
notifies(newNotesCount) == newNotesCount >= NotificationThreshold

\* a reconciliation that takes every store update for a change
everyUpdateDiffers(storeList, list) == TRUE

\* storeNotes.length !== notes.length || (last note ids differ)
listsDiffer(storeList, list) ==
  \/ NotesLen(storeList) # NotesLen(list)
  \/ LastNoteId(list) # LastNoteId(storeList)

\* the store-sync effect; c is the render the effect closes over, s the state the
\* effects of this render have produced so far (refs are read live)
storeSyncEffect(c, s) ==
  IF c.storeNotes[c.activeMission] # Undefined
     /\ c.activeMission = c.missionId /\ s.initialLoadDone
  THEN LET storeList == c.storeNotes[c.activeMission]
       IN IF s.previousMissionId = c.missionId
          THEN IF listsDiffer(storeList, c.notes)
               THEN LET s1 == preserveScrollPosition(s)
                        newNotesCount == Max(0, NotesLen(storeList) - NotesLen(c.notes))
                        s2 == IF notifies(newNotesCount)
                              THEN [s1 EXCEPT !.toastTimers = @ + 1]
                              ELSE s1
                    IN [s2 EXCEPT !.notes = storeList,
                                  !.totalNotesCount = NotesLen(storeList),
                                  !.restoreTimers = Append(@, s.scrollTop)]
               ELSE s
          ELSE IF NotesLen(storeList) > 0
               THEN [s EXCEPT !.notes = storeList,
                              !.totalNotesCount = NotesLen(storeList)]
               ELSE s
  ELSE s

\* the initial sync effect
initialSyncEffect(c, s) ==
  IF c.storeNotes[c.activeMission] # Undefined
     /\ c.activeMission = c.missionId /\ ~s.initialLoadDone
     /\ NotesLen(c.storeNotes[c.activeMission]) > 0
  THEN [s EXCEPT !.notes = c.storeNotes[c.activeMission],
                 !.totalNotesCount = NotesLen(c.storeNotes[c.activeMission])]
  ELSE s

\* One render and its effects, in the order the component declares them.  p is
\* the previous render, c this one; an effect runs iff one of its dependencies
\* differs between the two (first: the mount, where all run; touched: the
\* store handed out a new activeMission.notes array).
renderEffects(p, c, first, touched) ==
  LET missionChanged == first \/ p.missionId # c.missionId
      activeChanged  == touched \/ p.activeMission # c.activeMission
      s1 == IF missionChanged THEN loadInitialNotes(c) ELSE c
      s2 == IF missionChanged \/ activeChanged \/ NotesLen(p.notes) # NotesLen(c.notes)
            THEN storeSyncEffect(c, s1) ELSE s1
      s3 == IF missionChanged \/ activeChanged
            THEN initialSyncEffect(c, s2) ELSE s2
  IN s3

\* renders until no effect changes the state any more
settle(p, c, first, touched) ==
  LET r1 == renderEffects(p, c, first, touched)
      r2 == renderEffects(c, r1, FALSE, FALSE)
      r3 == renderEffects(r1, r2, FALSE, FALSE)
  IN r3

Remove(q, i) == SubSeq(q, 1, i - 1) \o SubSeq(q, i + 1, Len(q))

\* the Load More / Load All controls are rendered
ControlsShown(s) == s.hasMoreNotes \/ NotesLen(s.notes) < s.totalNotesCount
\* <Button onClick={loadMoreNotes} disabled={isLoadingMore || !hasMoreNotes}>
LoadMoreButtonEnabled(s) == ControlsShown(s) /\ ~(s.isLoadingMore \/ ~s.hasMoreNotes)
\* <Button onClick={loadAllNotes} disabled={isLoading || !hasMoreNotes}>
LoadAllButtonEnabled(s) == ControlsShown(s) /\ ~(s.isLoading \/ ~s.hasMoreNotes)

Mounted == previousMissionId # NoMission

\* ---------------------------------------------------------------- actions
\* the state NotesTab is constructed in, the store and the server as given
NotesTabInit(list, store, counts) ==
  /\ missionId = 1
  /\ notes = list
  /\ isLoading = FALSE
  /\ isLoadingMore = FALSE
  /\ hasMoreNotes = TRUE
  /\ totalNotesCount = 0
  /\ initialLoadDone = FALSE
  /\ previousMissionId = NoMission
  /\ lastScrollPosition = 0
  /\ scrollTop = 0
  /\ toastTimers = 0
  /\ restoreTimers = <<>>
  /\ toasts = 0
  /\ inflight = <<>>
  /\ requests = 0
  /\ failures = 0
  /\ activeMission = 1
  /\ storeNotes = store
  /\ serverCount = counts
  /\ pushes = 0
  /\ searchTerm = <<>>
  /\ selectedFilter = "all"
  /\ downloads = <<>>
  /\ exportToasts = 0

\* userParams?.writing_search_max_iterations ?? 1 and the like, no user
\* parameters being set
DefaultLimits ==
  [maxIterations |-> 1, maxQueries |-> 3, deepSearchIterations |-> 3,
   deepSearchQueries |-> 5]

\* limits the user can enter in the search settings dialog
CustomLimits ==
  [maxIterations |-> 2, maxQueries |-> 4, deepSearchIterations |-> 6,
   deepSearchQueries |-> 8]

\* the searchSettings object
SearchSettings(web, deep, limits) ==
  [useWebSearch |-> web, deepSearch |-> deep,
   maxIterations |-> limits.maxIterations, maxQueries |-> limits.maxQueries,
   deepSearchIterations |-> limits.deepSearchIterations,
   deepSearchQueries |-> limits.deepSearchQueries]

\* a chat's saved settings.tools
SavedTools(group, web, deep, limits) ==
  [documentGroupId |-> group, useWebSearch |-> web, deepSearch |-> deep,
   maxIterations |-> limits.maxIterations, maxQueries |-> limits.maxQueries,
   deepSearchIterations |-> limits.deepSearchIterations,
   deepSearchQueries |-> limits.deepSearchQueries]

\* the tool settings of WritingChatPanel as constructed, no chat active, the
\* chats' saved tools as given
ToolSettingsInit(saved) ==
  /\ activeChat = NoChat
  /\ chatTools = saved
  /\ chatKeys = OtherKeys
  /\ selectedGroupId = NoGroup
  /\ searchSettings = SearchSettings(FALSE, FALSE, DefaultLimits)
  /\ isLoadingChatSettings = FALSE
  /\ saveTimer = <<>>
  /\ loadTimers = {}
  /\ now = 0
  /\ puts = <<>>
  /\ putInflight = <<>>
  /\ changes = 0
  /\ lastChange = <<>>
  /\ bursts = 0

\* the state WritingChatPanel is constructed in; the store holds what it holds
WritingChatPanelInit ==
  /\ ToolSettingsInit([c \in Chats |-> NoTools])
  /\ message = <<>>
  /\ sessionLoading = FALSE
  /\ agentStatus = ""
  /\ messages \in SUBSET MessageIds
  /\ chatInflight = <<>>
  /\ chatOps = 0
  /\ errorToasts = <<>>
  /\ chatFailures = 0
  /\ uncaught = 0

\* the writing store is empty and idle, the panel untouched
\* ------------------------------------------ ResearchTabs and AgentActivityLog
\* a Load More button that is disabled whenever hasMore is false
disabledWithoutMore(props, n) ==
  LET offered == (props.hasMore \/ (props.totalLogs > 0 /\ n < props.totalLogs))
                 /\ props.onLoadMore
  IN [loadMore |-> IF ~offered THEN "hidden"
                   ELSE IF props.isLoadingMore \/ ~props.hasMore THEN "disabled"
                   ELSE "enabled",
      loadAll  |-> IF ~(offered /\ props.hasMore /\ props.onLoadAll) THEN "hidden"
                   ELSE IF props.isLoadingMore THEN "disabled"
                   ELSE "enabled"]

\* the load controls AgentActivityLog renders for its props and n loaded entries
renderControls(props, n) ==
  LET offered == (props.hasMore \/ (props.totalLogs > 0 /\ n < props.totalLogs))
                 /\ props.onLoadMore
  IN [loadMore |-> IF ~offered THEN "hidden"
                   ELSE IF props.isLoadingMore \/ (~props.hasMore /\ n >= props.totalLogs)
                        THEN "disabled"
                   ELSE "enabled",
      loadAll  |-> IF ~(offered /\ props.hasMore /\ props.onLoadAll) THEN "hidden"
                   ELSE IF props.isLoadingMore THEN "disabled"
                   ELSE "enabled"]

\* a toggle that only ever expands
toggleExpandsOnly(prev, index) == prev \cup {index}

\* the updater of toggleLogExpansion: a copy of prev without index if it has it,
\* with index otherwise
toggleLogExpansion(prev, index) ==
  IF index \in prev THEN prev \ {index} ELSE prev \cup {index}

\* ResearchTabs not mounted yet and the store without contexts; AgentActivityLog
\* rendered with no logs and the defaults of its props
MissionViewInit ==
  /\ tabsMissionId = NoMission
  /\ missionContexts = [m \in Missions |-> <<>>]
  /\ contextFetches = [m \in Missions |-> 0]
  /\ contextInflight = [m \in Missions |-> 0]
  /\ logs = <<>>
  /\ logProps = [hasMore |-> FALSE, onLoadMore |-> FALSE, onLoadAll |-> FALSE,
                 isLoadingMore |-> FALSE, totalLogs |-> 0]
  /\ expandedLogs = {}
  /\ logControls = renderControls(logProps, Len(logs))

ChatIdle ==
  /\ WritingChatPanelInit
  /\ messages = {}

Init ==
  /\ \E store \in [Missions -> {Undefined, <<>>}], c \in InitCounts :
        NotesTabInit(<<>>, store, [m \in Missions |-> IF m = 1 THEN c ELSE 3])
  /\ ChatIdle
  /\ MissionViewInit

\* the first render of NotesTab and its effects
Mount ==
  /\ ~Mounted
  /\ Commit(settle(Cur, Cur, TRUE, FALSE))
  /\ UNCHANGED <<serverCount, pushes>>

\* another mission is selected: the store's activeMission and the missionId prop change
SwitchMission(m) ==
  /\ Mounted
  /\ m # missionId
  /\ requests < MaxRequests
  /\ Commit(settle(Cur, [Cur EXCEPT !.missionId = m, !.activeMission = m], FALSE, FALSE))
  /\ UNCHANGED <<serverCount, pushes>>

ClickLoadMore ==
  /\ Mounted
  /\ LoadMoreButtonEnabled(Cur)
  /\ requests < MaxRequests
  /\ Commit(settle(Cur, loadMoreNotes(Cur), FALSE, FALSE))
  /\ UNCHANGED <<serverCount, pushes>>

ClickLoadAll ==
  /\ Mounted
  /\ LoadAllButtonEnabled(Cur)
  /\ requests < MaxRequests
  /\ Commit(settle(Cur, loadAllNotes(Cur), FALSE, FALSE))
  /\ UNCHANGED <<serverCount, pushes>>

\* the continuation of request r on the response data
Resolved(s, r, data) ==
  CASE r.kind = "initial" -> loadInitialNotesResolved(s, r, data)
    [] r.kind = "more"    -> loadMoreNotesResolved(s, r, data)
    [] r.kind = "all"     -> loadAllNotesResolved(s, r, data)

\* the continuation of request r on a network failure
Rejected(s, r) ==
  CASE r.kind = "initial" -> loadInitialNotesRejected(s)
    [] r.kind = "more"    -> loadMoreNotesRejected(s)
    [] r.kind = "all"     -> loadAllNotesRejected(s)

\* request i is answered; the backend read the mission when it held n notes
Resolve(i, n, legacy) ==
  /\ i \in 1..Len(inflight)
  /\ n \in {inflight[i].seen, serverCount[inflight[i].m]}
  /\ LET r == inflight[i]
         s == [Cur EXCEPT !.inflight = Remove(inflight, i)]
     IN Commit(settle(Cur, Resolved(s, r, ServerResponse(r, n, legacy)),
                      FALSE, r.m = activeMission))
  /\ UNCHANGED <<serverCount, pushes>>

\* request i fails
Reject(i) ==
  /\ i \in 1..Len(inflight)
  /\ LET r == inflight[i]
         s == [Cur EXCEPT !.inflight = Remove(inflight, i), !.failures = @ + 1]
     IN Commit(settle(Cur, Rejected(s, r), FALSE, FALSE))
  /\ UNCHANGED <<serverCount, pushes>>

\* the backend has created k notes for mission m, and the real-time channel
\* replaces mission m's notes in the store by the backend's list
Deliver(m, k) ==
  /\ pushes' = pushes + 1
  /\ serverCount' = [serverCount EXCEPT ![m] = @ + k]
  /\ LET s == [Cur EXCEPT !.storeNotes[m] = ServerSlice(m, serverCount[m] + k,
                                                        serverCount[m] + k, 0)]
     IN IF Mounted
        THEN Commit(settle(Cur, s, FALSE, m = activeMission))
        ELSE Commit(s)

Push(m, k) ==
  /\ pushes < MaxPushes
  /\ Deliver(m, k)

\* setTimeout(() => addToast({title: 'New Research Notes', ...}), 500) fires
ToastTimerFires ==
  /\ toastTimers > 0
  /\ Commit([Cur EXCEPT !.toastTimers = @ - 1, !.toasts = @ + 1])
  /\ UNCHANGED <<serverCount, pushes>>

\* setTimeout(restoreScrollPosition, 50) fires
RestoreTimerFires ==
  /\ restoreTimers # <<>>
  /\ Commit(restoreScrollPosition([Cur EXCEPT !.restoreTimers = Tail(@)]))
  /\ UNCHANGED <<serverCount, pushes>>

Next ==
  \/ Mount
  \/ \E m \in Missions : SwitchMission(m)
  \/ ClickLoadMore
  \/ ClickLoadAll
  \/ \E i \in 1..Len(inflight), legacy \in BOOLEAN :
        \E n \in {inflight[i].seen, serverCount[inflight[i].m]} : Resolve(i, n, legacy)
  \/ \E i \in 1..Len(inflight) : Reject(i)
  \/ \E m \in Missions, k \in GrowSizes : Push(m, k)
  \/ ToastTimerFires
  \/ RestoreTimerFires

Spec == Init /\ [][Next]_vars

\* the notes view against a fixed server-side note set: one mission, no push updates
NextFixed ==
  \/ Mount
  \/ ClickLoadMore
  \/ ClickLoadAll
  \/ \E i \in 1..Len(inflight), legacy \in BOOLEAN :
        \E n \in {inflight[i].seen, serverCount[inflight[i].m]} : Resolve(i, n, legacy)
  \/ \E i \in 1..Len(inflight) : Reject(i)

FixedSpec == Init /\ [][NextFixed]_vars

\* ------------------------------------------------------- scroll offset
\* the user scrolls the notes container
UserScroll(y) ==
  /\ Mounted
  /\ y # scrollTop
  /\ Commit([Cur EXCEPT !.scrollTop = y])
  /\ UNCHANGED <<serverCount, pushes>>

\* a push update for the viewed mission
PushViewed(k) ==
  /\ pushes < MaxReconciliations
  /\ Deliver(missionId, k)

\* the notes view of one mission whose container is scrolled while push updates
\* arrive
NextScroll ==
  \/ Mount
  \/ \E i \in 1..Len(inflight), legacy \in BOOLEAN :
        \E n \in {inflight[i].seen, serverCount[inflight[i].m]} : Resolve(i, n, legacy)
  \/ \E i \in 1..Len(inflight) : Reject(i)
  \/ \E k \in GrowSizes : PushViewed(k)
  \/ \E y \in ScrollOffsets : UserScroll(y)
  \/ ToastTimerFires
  \/ RestoreTimerFires

ScrollSpec == Init /\ [][NextScroll]_vars

\* --------------------------------------------------- one mission viewed
\* the notes view while the mission it shows stays the same
NextOneMission ==
  \/ Mount
  \/ ClickLoadMore
  \/ ClickLoadAll
  \/ \E i \in 1..Len(inflight), legacy \in BOOLEAN :
        \E n \in {inflight[i].seen, serverCount[inflight[i].m]} : Resolve(i, n, legacy)
  \/ \E i \in 1..Len(inflight) : Reject(i)
  \/ \E k \in GrowSizes : Push(missionId, k)
  \/ ToastTimerFires
  \/ RestoreTimerFires

OneMissionSpec == Init /\ [][NextOneMission]_vars

\* ------------------------------------------------------- paging to the end
\* the sizes of the fixed note set the view pages through
PagingCounts == {0, 3, 99, 100, 101, 104, 200, 205, 300}

\* loadMoreNotes() is invoked once no fetch is pending
InvokeLoadMore ==
  /\ Mounted /\ initialLoadDone /\ inflight = <<>>
  /\ requests < MaxRequests \/ ~hasMoreNotes
  /\ Commit(settle(Cur, loadMoreNotes(Cur), FALSE, FALSE))
  /\ UNCHANGED <<serverCount, pushes>>

\* loadAllNotes() is invoked after the last page has been loaded
InvokeLoadAll ==
  /\ Mounted /\ initialLoadDone /\ inflight = <<>>
  /\ ~hasMoreNotes
  /\ Commit(settle(Cur, loadAllNotes(Cur), FALSE, FALSE))
  /\ UNCHANGED <<serverCount, pushes>>

\* the pending fetch succeeds with { notes, total, has_more } of the fixed note set
ResolveCorrect ==
  /\ inflight # <<>>
  /\ Resolve(1, serverCount[inflight[1].m], FALSE)

PagingInit ==
  /\ \E store \in [Missions -> {Undefined, <<>>}], c \in PagingCounts :
        NotesTabInit(<<>>, store, [m \in Missions |-> c])
  /\ ChatIdle
  /\ MissionViewInit

NextPaging ==
  \/ Mount
  \/ ResolveCorrect
  \/ InvokeLoadMore
  \/ InvokeLoadAll

PagingSpec == PagingInit /\ [][NextPaging]_vars

\* every fetch is answered, and load-more is invoked again while it has an effect
LivePagingSpec ==
  /\ PagingSpec
  /\ WF_vars(Mount) /\ WF_vars(ResolveCorrect) /\ WF_vars(InvokeLoadMore)

\* ------------------------------------------------- the initial load again
\* loadInitialNotes() is invoked again after the viewed mission's load is done
ReinvokeInitialLoad ==
  /\ Mounted /\ initialLoadDone
  /\ Commit(settle(Cur, loadInitialNotes(Cur), FALSE, FALSE))
  /\ UNCHANGED <<serverCount, pushes>>

\* the notes view switched between missions, its initial load invoked again
NextReload ==
  \/ Mount
  \/ \E m \in Missions : SwitchMission(m)
  \/ \E i \in 1..Len(inflight), legacy \in BOOLEAN :
        \E n \in {inflight[i].seen, serverCount[inflight[i].m]} : Resolve(i, n, legacy)
  \/ \E i \in 1..Len(inflight) : Reject(i)
  \/ ToastTimerFires
  \/ RestoreTimerFires
  \/ ReinvokeInitialLoad

ReloadSpec == Init /\ [][NextReload]_vars

\* ---------------------------------------------------------------- filters
\* A string is the sequence of its characters.  An optional string field of a
\* note is {} when the note has no such field and {s} when it holds the string s.
SampleTexts   == {<<>>, <<"a">>, <<"A", "b">>}
OptionalTexts == {{}} \cup {{s} : s \in SampleTexts}
Filters       == {"all", "web", "documents"}

\* String.prototype.toLowerCase
toLowerCase(s) == [i \in 1..Len(s) |-> CASE s[i] = "A" -> "a" [] s[i] = "B" -> "b" [] OTHER -> s[i]]

\* String.prototype.includes
includes(s, t) == \E k \in 0..(Len(s) - Len(t)) : SubSeq(s, k + 1, k + Len(t)) = t

\* an optional string in a condition: undefined and '' count as false
Truthy(v) == \E s \in v : s # <<>>

\* the notes the filters are applied to: note_id, content, source?, url?
NoteLists ==
  LET Fields == [content : SampleTexts, source : OptionalTexts, url : OptionalTexts]
      Lists  == UNION {[1..n -> Fields] : n \in 0..MaxNotes}
  IN {[i \in 1..Len(l) |-> [note_id |-> i, content |-> l[i].content,
                            source |-> l[i].source, url |-> l[i].url]] : l \in Lists}

\* a search that compares the letters as they are typed
matchesSearchCaseSensitive(note, term) ==
  \/ term = <<>>
  \/ includes(note.content, term)
  \/ Truthy(note.source) /\ \E s \in note.source : includes(s, term)
  \/ Truthy(note.url) /\ \E s \in note.url : includes(s, term)

matchesSearch(note, term) ==
  \/ term = <<>>
  \/ includes(toLowerCase(note.content), toLowerCase(term))
  \/ Truthy(note.source) /\ \E s \in note.source : includes(toLowerCase(s), toLowerCase(term))
  \/ Truthy(note.url) /\ \E s \in note.url : includes(toLowerCase(s), toLowerCase(term))

\* a 'documents' filter that does not look at the url
matchesFilterIgnoringUrl(note, filter) ==
  \/ filter = "all"
  \/ filter = "web" /\ Truthy(note.url)
  \/ filter = "documents" /\ Truthy(note.source)

matchesFilter(note, filter) ==
  \/ filter = "all"
  \/ filter = "web" /\ Truthy(note.url)
  \/ filter = "documents" /\ Truthy(note.source) /\ ~Truthy(note.url)

filteredNotes(list, term, filter) ==
  SelectSeq(list, LAMBDA note : matchesSearch(note, term) /\ matchesFilter(note, filter))

getFilterCount(filter) ==
  CASE filter = "all" -> IF totalNotesCount # 0 THEN totalNotesCount ELSE Len(notes)
    [] filter = "web" -> Len(SelectSeq(notes, LAMBDA note : Truthy(note.url)))
    [] filter = "documents" ->
         Len(SelectSeq(notes, LAMBDA note : Truthy(note.source) /\ ~Truthy(note.url)))
    [] OTHER -> 0

\* onChange={(e) => setSearchTerm(e.target.value)}
setSearchTerm(term) ==
  /\ searchTerm' = term
  /\ UNCHANGED <<notesVars, selectedFilter, downloads, exportToasts, chatVars, settingsVars, viewVars>>

\* onClick={() => setSelectedFilter(filter)}
setSelectedFilter(filter) ==
  /\ selectedFilter' = filter
  /\ UNCHANGED <<notesVars, searchTerm, downloads, exportToasts, chatVars, settingsVars, viewVars>>

\* NotesTab displaying any list of notes
FilterInit ==
  /\ \E list \in NoteLists :
        NotesTabInit(list, [m \in Missions |-> Undefined], [m \in Missions |-> MaxNotes])
  /\ ChatIdle
  /\ MissionViewInit

NextFilter ==
  \/ \E term \in SampleTexts : setSearchTerm(term)
  \/ \E filter \in Filters : setSelectedFilter(filter)

FilterSpec == FilterInit /\ [][NextFilter]_vars

\* ------------------------------------------------------------------ export
\* the characters of a literal
UnknownSource == <<"U", "n", "k", "n", "o", "w", "n", " ", "s", "o", "u", "r", "c", "e">>
UrlLabel      == <<"U", "R", "L", ":", " ">>
Delimiter     == <<"-", "-", "-">>

\* formatFullDateTime(note.timestamp): some text without a line break
formatFullDateTime(note) == <<"t">>

\* v || fallback, for an optional string
OrElse(v, fallback) == IF Truthy(v) THEN CHOOSE s \in v : TRUE ELSE fallback

\* `[${formatFullDateTime(note.timestamp)}] (${sourceInfo})\n${note.content}\n${urlInfo ? `URL: ${urlInfo}` : ''}\n---\n`
ExportEntry(note) ==
  LET sourceInfo == OrElse(note.source, UnknownSource)
      urlInfo    == OrElse(note.url, <<>>)
  IN <<"[">> \o formatFullDateTime(note) \o <<"]", " ", "(">> \o sourceInfo \o <<")", "\n">>
     \o note.content \o <<"\n">>
     \o (IF urlInfo # <<>> THEN UrlLabel \o urlInfo ELSE <<>>) \o <<"\n">>
     \o Delimiter \o <<"\n">>

\* Array.prototype.join('\n')
JoinLines(parts) ==
  LET F[i \in 0..Len(parts)] ==
        IF i = 0 THEN <<>>
        ELSE IF i = 1 THEN parts[1]
        ELSE F[i-1] \o <<"\n">> \o parts[i]
  IN F[Len(parts)]

\* filteredNotes.map(note => ...).join('\n')
notesText(list) == JoinLines([i \in 1..Len(list) |-> ExportEntry(list[i])])

\* disabled={filteredNotes.length === 0}
ExportButtonEnabled == Len(filteredNotes(notes, searchTerm, selectedFilter)) > 0

\* the export button is clicked: the text is downloaded and a toast added; the
\* download is kept with the notes that were exported
handleExportNotes ==
  /\ ExportButtonEnabled
  /\ Len(downloads) < MaxExports
  /\ LET list == filteredNotes(notes, searchTerm, selectedFilter)
     IN downloads' = Append(downloads, [text |-> notesText(list), exported |-> list])
  /\ exportToasts' = exportToasts + 1
  /\ UNCHANGED <<notesVars, searchTerm, selectedFilter, chatVars, settingsVars, viewVars>>

\* the notes whose export is examined: a content may be a line of three dashes
ExportNoteLists ==
  LET Fields == [content : {<<"a">>, Delimiter}, source : {{}, {<<"A", "b">>}},
                 url : {{}, {<<"a">>}}]
      Lists  == UNION {[1..n -> Fields] : n \in 0..MaxNotes}
  IN {[i \in 1..Len(l) |-> [note_id |-> i, content |-> l[i].content,
                            source |-> l[i].source, url |-> l[i].url]] : l \in Lists}

ExportInit ==
  /\ \E list \in ExportNoteLists :
        NotesTabInit(list, [m \in Missions |-> Undefined], [m \in Missions |-> MaxNotes])
  /\ ChatIdle
  /\ MissionViewInit

NextExport ==
  \/ \E term \in SampleTexts : setSearchTerm(term)
  \/ \E filter \in Filters : setSelectedFilter(filter)
  \/ handleExportNotes

ExportSpec == ExportInit /\ [][NextExport]_vars

\* ------------------------------------------------------- WritingChatPanel
MessageTexts  == {<<>>, <<" ">>, <<"a">>, <<" ", "a", " ">>}
AgentStatuses == {"", "thinking", "complete"}

\* String.prototype.trim
trim(s) ==
  LET kept == {i \in 1..Len(s) : s[i] # " "}
  IN IF kept = {} THEN <<>>
     ELSE SubSeq(s, CHOOSE i \in kept : \A j \in kept : i <= j,
                    CHOOSE i \in kept : \A j \in kept : i >= j)

\* the panel and the writing store as one record
ChatCur ==
  [message |-> message, sessionLoading |-> sessionLoading, agentStatus |-> agentStatus,
   messages |-> messages, chatInflight |-> chatInflight, chatOps |-> chatOps,
   errorToasts |-> errorToasts, chatFailures |-> chatFailures, uncaught |-> uncaught]

ChatCommit(s) ==
  /\ message' = s.message
  /\ sessionLoading' = s.sessionLoading
  /\ agentStatus' = s.agentStatus
  /\ messages' = s.messages
  /\ chatInflight' = s.chatInflight
  /\ chatOps' = s.chatOps
  /\ errorToasts' = s.errorToasts
  /\ chatFailures' = s.chatFailures
  /\ uncaught' = s.uncaught
  /\ UNCHANGED <<notesVars, filterVars, settingsVars, viewVars>>

agentWorking(s) ==
  s.agentStatus # "" /\ s.agentStatus \notin {"idle", "complete", "error"}

\* const isLoading = sessionLoading || !!agentWorking
chatIsLoading(s) == s.sessionLoading \/ agentWorking(s)

\* a call into the writing store, pending until the store resolves or rejects it
\* (options: the options object handed over, none for a call without one)
StoreCall(s, op, arg, options) ==
  [s EXCEPT !.chatInflight = Append(@, [op |-> op, arg |-> arg, options |-> options]),
            !.chatOps = @ + 1]

sendMessage(s, userMessage, options) == StoreCall(s, "send", userMessage, <<options>>)
regenerateMessage(s, messageId, options) ==
  StoreCall(s, "regenerate", messageId, <<options>>)
removeMessage(s, messageId) == StoreCall(s, "delete", messageId, <<>>)

\* options that always carry the normal limits
normalLimitsAlways ==
  [documentGroupId |-> selectedGroupId,
   useWebSearch |-> searchSettings.useWebSearch,
   deepSearch |-> searchSettings.deepSearch,
   maxIterations |-> searchSettings.maxIterations,
   maxQueries |-> searchSettings.maxQueries]

\* the options object handleSendMessage and handleRegenerate build from the
\* render's selectedGroupId and searchSettings
sendOptions ==
  [documentGroupId |-> selectedGroupId,
   useWebSearch |-> searchSettings.useWebSearch,
   deepSearch |-> searchSettings.deepSearch,
   maxIterations |-> IF searchSettings.deepSearch
                     THEN searchSettings.deepSearchIterations
                     ELSE searchSettings.maxIterations,
   maxQueries |-> IF searchSettings.deepSearch
                  THEN searchSettings.deepSearchQueries
                  ELSE searchSettings.maxQueries]

addToast(s, title) == [s EXCEPT !.errorToasts = Append(@, title)]

handleSendMessage(s) ==
  IF trim(s.message) = <<>> \/ chatIsLoading(s)
  THEN s
  ELSE sendMessage([s EXCEPT !.message = <<>>], trim(s.message), sendOptions)

\* a catch block that lets the rejection go on to the caller
rejectionEscapes(s) == [s EXCEPT !.uncaught = @ + 1]

handleSendMessageRejected(s) == addToast(s, "Chat Error")

handleRegenerate(s, messageId) == regenerateMessage(s, messageId, sendOptions)

handleRegenerateRejected(s) == addToast(s, "Regeneration Error")

onDelete(s, messageId) == removeMessage(s, messageId)

onDeleteRejected(s) == addToast(s, "Delete Failed")

\* onChange={(e) => setMessage(e.target.value)}; the textarea is disabled while loading
setMessage(text) ==
  /\ ~chatIsLoading(ChatCur)
  /\ ChatCommit([ChatCur EXCEPT !.message = text])

\* Enter in the textarea or a click on the send button
PressSend ==
  /\ ~chatIsLoading(ChatCur)
  /\ chatOps < MaxChatOps
  /\ ChatCommit(handleSendMessage(ChatCur))

ClickRegenerate(messageId) ==
  /\ messageId \in messages
  /\ chatOps < MaxChatOps
  /\ ChatCommit(handleRegenerate(ChatCur, messageId))

ClickDelete(messageId) ==
  /\ messageId \in messages
  /\ chatOps < MaxChatOps
  /\ ChatCommit(onDelete(ChatCur, messageId))

\* the store resolves call i: the handler's try block ends
ChatResolve(i) ==
  /\ i \in 1..Len(chatInflight)
  /\ ChatCommit([ChatCur EXCEPT !.chatInflight = Remove(chatInflight, i)])

\* the continuation of a store call on its rejection
ChatRejected(s, op) ==
  CASE op = "send"       -> handleSendMessageRejected(s)
    [] op = "regenerate" -> handleRegenerateRejected(s)
    [] op = "delete"     -> onDeleteRejected(s)

\* the store rejects call i
ChatReject(i) ==
  /\ i \in 1..Len(chatInflight)
  /\ LET s == [ChatCur EXCEPT !.chatInflight = Remove(chatInflight, i),
                              !.chatFailures = @ + 1]
     IN ChatCommit(ChatRejected(s, chatInflight[i].op))

\* the writing store changes its loading flag, its agent status and its messages
StoreUpdate(loading, status, ids) ==
  ChatCommit([ChatCur EXCEPT !.sessionLoading = loading, !.agentStatus = status,
                             !.messages = ids])

ChatInit ==
  /\ NotesTabInit(<<>>, [m \in Missions |-> Undefined], [m \in Missions |-> PageSize])
  /\ WritingChatPanelInit
  /\ MissionViewInit

NextChat ==
  \/ \E text \in MessageTexts : setMessage(text)
  \/ PressSend
  \/ \E messageId \in MessageIds : ClickRegenerate(messageId)
  \/ \E messageId \in MessageIds : ClickDelete(messageId)
  \/ \E i \in 1..Len(chatInflight) : ChatResolve(i)
  \/ \E i \in 1..Len(chatInflight) : ChatReject(i)
  \/ \E loading \in BOOLEAN, status \in AgentStatuses, ids \in SUBSET MessageIds :
        StoreUpdate(loading, status, ids)

ChatSpec == ChatInit /\ [][NextChat]_vars


\* ------------------------------------------ WritingChatPanel: tool settings
\* the panel's tool settings, its timers and the writing store as one record
SettingsCur ==
  [activeChat |-> activeChat, chatTools |-> chatTools, chatKeys |-> chatKeys,
   selectedGroupId |-> selectedGroupId,
   searchSettings |-> searchSettings, isLoadingChatSettings |-> isLoadingChatSettings,
   saveTimer |-> saveTimer, loadTimers |-> loadTimers, now |-> now, puts |-> puts,
   putInflight |-> putInflight, changes |-> changes, lastChange |-> lastChange,
   bursts |-> bursts]

SettingsCommit(s) ==
  /\ activeChat' = s.activeChat
  /\ chatTools' = s.chatTools
  /\ chatKeys' = s.chatKeys
  /\ selectedGroupId' = s.selectedGroupId
  /\ searchSettings' = s.searchSettings
  /\ isLoadingChatSettings' = s.isLoadingChatSettings
  /\ saveTimer' = s.saveTimer
  /\ loadTimers' = s.loadTimers
  /\ now' = s.now
  /\ puts' = s.puts
  /\ putInflight' = s.putInflight
  /\ changes' = s.changes
  /\ lastChange' = s.lastChange
  /\ bursts' = s.bursts
  /\ UNCHANGED <<notesVars, filterVars, chatVars, viewVars>>

\* the tools object saveToolSettings builds from the render's state
ToolsOf(s) ==
  SavedTools(s.selectedGroupId, s.searchSettings.useWebSearch,
             s.searchSettings.deepSearch, s.searchSettings)

\* useEffect(..., [activeChat?.id]): load the chat's saved tool settings
loadChatSettingsEffect(s) ==
  IF s.activeChat = NoChat THEN s
  ELSE LET saved == s.chatTools[s.activeChat]
       IN [s EXCEPT
             !.isLoadingChatSettings = TRUE,
             !.selectedGroupId = IF saved # NoTools THEN saved[1].documentGroupId ELSE NoGroup,
             !.searchSettings =
                IF saved # NoTools
                THEN SearchSettings(saved[1].useWebSearch, saved[1].deepSearch, saved[1])
                ELSE SearchSettings(FALSE, FALSE, DefaultLimits),
             !.loadTimers = @ \cup {s.now + SettingsLoadDelay}]

\* a debounce that does not look at the loading flag
debounceWhileLoading(s) ==
  IF s.activeChat = NoChat
  THEN [s EXCEPT !.saveTimer = <<>>]
  ELSE [s EXCEPT !.saveTimer = <<[due |-> s.now + DebounceDelay, chat |-> s.activeChat,
                                  keys |-> s.chatKeys[s.activeChat],
                                  tools |-> ToolsOf(s)]>>]

\* useEffect(..., [selectedGroupId, searchSettings]): the cleanup of the previous
\* run clears its timer, then a new timer is set unless no chat is active or the
\* chat's settings are being loaded
debounceEffect(s) ==
  IF s.activeChat = NoChat \/ s.isLoadingChatSettings
  THEN [s EXCEPT !.saveTimer = <<>>]
  ELSE [s EXCEPT !.saveTimer = <<[due |-> s.now + DebounceDelay, chat |-> s.activeChat,
                                  keys |-> s.chatKeys[s.activeChat],
                                  tools |-> ToolsOf(s)]>>]

\* a save that sends the tools alone
saveToolsAlone(s, timer) ==
  [s EXCEPT !.saveTimer = <<>>,
            !.puts = Append(@, [chat |-> timer.chat, keys |-> {}, tools |-> timer.tools,
                                at |-> s.now]),
            !.putInflight = Append(@, [chat |-> timer.chat, keys |-> {},
                                       tools |-> timer.tools])]

\* saveToolSettings of the render that set the timer, up to its await: chatSettings
\* is { ...(activeChat.settings || {}), tools } of that render's activeChat
saveToolSettings(s, timer) ==
  [s EXCEPT !.saveTimer = <<>>,
            !.puts = Append(@, [chat |-> timer.chat, keys |-> timer.keys,
                                tools |-> timer.tools, at |-> s.now]),
            !.putInflight = Append(@, [chat |-> timer.chat, keys |-> timer.keys,
                                       tools |-> timer.tools])]

\* the store's active chat becomes chat: the load effect runs, and in the render
\* of the settings it loaded the debounce effect
activated(s) ==
  IF s.activeChat = NoChat THEN s ELSE debounceEffect(loadChatSettingsEffect(s))

\* a change of a tool setting by the user, s before and c after: it is counted,
\* and so is the burst it opens when no change was made in the last 500 ms
changed(s, c) ==
  LET opens == s.lastChange = <<>> \/ s.now - s.lastChange[1].at >= DebounceDelay
      d == debounceEffect([c EXCEPT !.changes = @ + 1])
  IN IF s.activeChat = NoChat THEN d
     ELSE [d EXCEPT !.lastChange = <<[at |-> s.now, chat |-> s.activeChat, tools |-> ToolsOf(c)]>>,
                    !.bursts = IF opens THEN @ + 1 ELSE @]

\* onClick: setSearchSettings(prev => ({ ...prev, useWebSearch: !prev.useWebSearch }))
ToggleWebSearch ==
  /\ ~chatIsLoading(ChatCur)
  /\ changes < MaxChanges
  /\ SettingsCommit(changed(SettingsCur,
        [SettingsCur EXCEPT !.searchSettings.useWebSearch = ~@]))

\* onClick: setSearchSettings(prev => ({ ...prev, deepSearch: !prev.deepSearch }))
ToggleDeepSearch ==
  /\ ~chatIsLoading(ChatCur)
  /\ searchSettings.useWebSearch \/ selectedGroupId # NoGroup
  /\ changes < MaxChanges
  /\ SettingsCommit(changed(SettingsCur,
        [SettingsCur EXCEPT !.searchSettings.deepSearch = ~@]))

\* onValueChange: setSelectedGroupId(value === "none" ? null : value)
SelectGroup(g) ==
  /\ ~chatIsLoading(ChatCur)
  /\ g # selectedGroupId
  /\ changes < MaxChanges
  /\ SettingsCommit(changed(SettingsCur, [SettingsCur EXCEPT !.selectedGroupId = g]))

\* onSave of the search settings dialog: setSearchSettings(newSettings), the
\* dialog having changed the limits
SaveSearchSettings(limits) ==
  /\ SearchSettings(searchSettings.useWebSearch, searchSettings.deepSearch, limits)
       # searchSettings
  /\ changes < MaxChanges
  /\ SettingsCommit(changed(SettingsCur,
        [SettingsCur EXCEPT !.searchSettings =
           SearchSettings(@.useWebSearch, @.deepSearch, limits)]))

\* the writing store makes chat c the active chat, or none for NoChat
SetActiveChat(c) ==
  /\ c # activeChat
  /\ SettingsCommit(activated([SettingsCur EXCEPT !.activeChat = c]))

\* the 500 ms timer fires
SaveTimerFires ==
  /\ saveTimer # <<>>
  /\ saveTimer[1].due <= now
  /\ SettingsCommit(saveToolSettings(SettingsCur, saveTimer[1]))

\* a 100 ms timer fires: setIsLoadingChatSettings(false)
LoadTimerFires(due) ==
  /\ due \in loadTimers
  /\ due <= now
  /\ SettingsCommit([SettingsCur EXCEPT !.isLoadingChatSettings = FALSE,
                                        !.loadTimers = @ \ {due}])

\* PUT i is answered: useWritingStore.setState({ activeChat: { ...activeChat,
\* settings: chatSettings } }) with the activeChat of the render that set the timer
PutResolve(i) ==
  /\ i \in 1..Len(putInflight)
  /\ LET r == putInflight[i]
         s == [SettingsCur EXCEPT !.putInflight = Remove(putInflight, i),
                                  !.activeChat = r.chat,
                                  !.chatTools[r.chat] = <<r.tools>>,
                                  !.chatKeys[r.chat] = r.keys]
     IN SettingsCommit(IF r.chat # activeChat THEN activated(s) ELSE s)

\* PUT i fails: the error is logged
PutReject(i) ==
  /\ i \in 1..Len(putInflight)
  /\ SettingsCommit([SettingsCur EXCEPT !.putInflight = Remove(putInflight, i)])

\* time passes, never past a timer that is due
TimePasses ==
  /\ now + Tick <= MaxTicks * Tick
  /\ \A k \in 1..Len(saveTimer) : saveTimer[k].due > now
  /\ \A due \in loadTimers : due > now
  /\ SettingsCommit([SettingsCur EXCEPT !.now = @ + Tick])

SettingsInit ==
  /\ NotesTabInit(<<>>, [m \in Missions |-> Undefined], [m \in Missions |-> PageSize])
  /\ message = <<>> /\ sessionLoading = FALSE /\ agentStatus = "" /\ messages = {}
  /\ chatInflight = <<>> /\ chatOps = 0 /\ errorToasts = <<>> /\ chatFailures = 0
  /\ uncaught = 0
  /\ \E saved \in [Chats -> {NoTools, <<SavedTools(NoGroup, TRUE, FALSE, DefaultLimits)>>}] :
        ToolSettingsInit(saved)
  /\ MissionViewInit

NextSettings ==
  \/ ToggleWebSearch
  \/ ToggleDeepSearch
  \/ \E g \in Groups \cup {NoGroup} : SelectGroup(g)
  \/ \E c \in Chats \cup {NoChat} : SetActiveChat(c)
  \/ SaveTimerFires
  \/ \E due \in loadTimers : LoadTimerFires(due)
  \/ \E i \in 1..Len(putInflight) : PutResolve(i)
  \/ \E i \in 1..Len(putInflight) : PutReject(i)
  \/ TimePasses

SettingsSpec == SettingsInit /\ [][NextSettings]_vars

\* timers that are due fire, and time does not stand still while none is due
SettingsFairness ==
  /\ WF_vars(SaveTimerFires)
  /\ WF_vars(\E due \in loadTimers : LoadTimerFires(due))
  /\ WF_vars(TimePasses)
  /\ WF_vars(\E i \in 1..Len(putInflight) : PutResolve(i) \/ PutReject(i))

LiveSettingsSpec == SettingsSpec /\ SettingsFairness

\* ------------------------------------------ WritingChatPanel: sending
\* the panel with no chat active yet: the user sets the tools and sends
NextSend ==
  \/ \E text \in MessageTexts : setMessage(text)
  \/ PressSend
  \/ \E messageId \in MessageIds : ClickRegenerate(messageId)
  \/ \E i \in 1..Len(chatInflight) : ChatResolve(i)
  \/ \E loading \in BOOLEAN, status \in AgentStatuses :
        StoreUpdate(loading, status, MessageIds)
  \/ ToggleWebSearch
  \/ ToggleDeepSearch
  \/ \E g \in Groups \cup {NoGroup} : SelectGroup(g)
  \/ \E limits \in {DefaultLimits, CustomLimits} : SaveSearchSettings(limits)

SendSpec == ChatInit /\ [][NextSend]_vars

\* ------------------------------------------ ResearchTabs and AgentActivityLog
\* an effect that fetches the context whether or not the store holds one
fetchesAlways(s) ==
  IF s.missionId # NoMission
  THEN [s EXCEPT !.fetches[s.missionId] = @ + 1, !.inflight[s.missionId] = @ + 1]
  ELSE s

\* useEffect(..., [missionId, ensureMissionInStore, fetchMissionContext,
\* missionContext]) of the render of mission s.missionId with the store's contexts
contextEffect(s) ==
  IF s.missionId # NoMission /\ s.contexts[s.missionId] = <<>>
  THEN [s EXCEPT !.fetches[s.missionId] = @ + 1, !.inflight[s.missionId] = @ + 1]
  ELSE s

\* ResearchTabs is rendered with missionId m, contexts in the store and pending
\* the calls awaiting their result: its effect runs when it is mounted and when m
\* or the context of m has changed
ShowMission(m, contexts, pending) ==
  LET s == [missionId |-> m, contexts |-> contexts, fetches |-> contextFetches,
            inflight |-> pending]
      ran == m # tabsMissionId
             \/ (m # NoMission /\ contexts[m] # missionContexts[m])
      t == IF ran THEN contextEffect(s) ELSE s
  IN /\ tabsMissionId' = m
     /\ missionContexts' = contexts
     /\ contextFetches' = t.fetches
     /\ contextInflight' = t.inflight
     /\ UNCHANGED <<notesVars, filterVars, chatVars, settingsVars, logs, logProps,
                    expandedLogs, logControls>>

\* the parent shows mission m
SelectMission(m) ==
  /\ m # tabsMissionId
  /\ contextFetches[m] < MaxContextFetches \/ missionContexts[m] # <<>>
  /\ ShowMission(m, missionContexts, contextInflight)

\* a fetchMissionContext call for mission m is answered: on success the store
\* holds the fetched context
ContextAnswered(m, ok) ==
  /\ contextInflight[m] > 0
  /\ \E pending \in {[contextInflight EXCEPT ![m] = @ - 1]} :
        ShowMission(tabsMissionId,
                    IF ok THEN [missionContexts EXCEPT ![m] = <<"fetched">>]
                          ELSE missionContexts,
                    pending)

\* a WebSocket update puts a context of mission m in the store
ContextPush(m) ==
  /\ missionContexts[m] # <<"pushed">>
  /\ ShowMission(tabsMissionId, [missionContexts EXCEPT ![m] = <<"pushed">>],
                 contextInflight)

\* onToggleExpansion of the entry at index: setExpandedLogs(prev => ...)
ToggleLog(index) ==
  /\ index \in 0..(Len(logs) - 1)
  /\ expandedLogs' = toggleLogExpansion(expandedLogs, index)
  /\ UNCHANGED <<notesVars, filterVars, chatVars, settingsVars, tabsMissionId,
                 missionContexts, contextFetches, contextInflight, logs, logProps,
                 logControls>>

\* the parent renders AgentActivityLog with k more entries at the end of logs
AppendLogs(k) ==
  /\ k >= 1 /\ Len(logs) + k <= MaxLogs
  /\ logs' = logs \o [i \in 1..k |-> Len(logs) + i]
  /\ logControls' = renderControls(logProps, Len(logs'))
  /\ UNCHANGED <<notesVars, filterVars, chatVars, settingsVars, tabsMissionId,
                 missionContexts, contextFetches, contextInflight, logProps,
                 expandedLogs>>

\* the parent renders AgentActivityLog with another value of one paging prop
SetLogProps(props) ==
  /\ Cardinality({f \in DOMAIN props : props[f] # logProps[f]}) = 1
  /\ logProps' = props
  /\ logControls' = renderControls(props, Len(logs))
  /\ UNCHANGED <<notesVars, filterVars, chatVars, settingsVars, tabsMissionId,
                 missionContexts, contextFetches, contextInflight, logs, expandedLogs>>

NextView ==
  \/ \E m \in Missions : SelectMission(m)
  \/ \E m \in Missions, ok \in BOOLEAN : ContextAnswered(m, ok)
  \/ \E m \in Missions : ContextPush(m)
  \/ \E index \in 0..(MaxLogs - 1) : ToggleLog(index)
  \/ \E k \in 1..MaxLogs : AppendLogs(k)
  \/ \E props \in [hasMore : BOOLEAN, onLoadMore : BOOLEAN, onLoadAll : BOOLEAN,
                   isLoadingMore : BOOLEAN, totalLogs : {0, 1, MaxLogs + 1}] :
        SetLogProps(props)

ViewInit ==
  /\ NotesTabInit(<<>>, [m \in Missions |-> Undefined], [m \in Missions |-> PageSize])
  /\ ChatIdle
  /\ MissionViewInit

ViewSpec == ViewInit /\ [][NextView]_vars

\* ------------------------------------------------------------------ claims
\* a fetch of the given kind is awaiting its response
InFlight(kind) == \E i \in 1..Len(inflight) : inflight[i].kind = kind

\* C1: against a fixed server-side note set, once every fetch of the viewed mission
\* has completed, no note is displayed twice.
C1_NoDuplicatesAfterLoads == inflight = <<>> => NoDuplicates(notes)

\* C2: in every reachable state no two entries of the displayed list have the
\* same note identifier.
C2_UniqueNoteIds == NoDuplicates(notes)

\* C3: while a load-more fetch is in flight Load More cannot issue another request,
\* and while a load-all fetch is in flight Load All cannot issue another request.
C3_RepeatedInvocationIsNoOp ==
  /\ InFlight("more") => ~(LoadMoreButtonEnabled(Cur) /\ loadMoreNotes(Cur) # Cur)
  /\ InFlight("all") => ~(LoadAllButtonEnabled(Cur) /\ loadAllNotes(Cur) # Cur)

\* C4: at most one notes fetch is in flight at any time.
C4_AtMostOneFetchInFlight == Len(inflight) <= 1

\* C5: after a fetch has been answered or a push update has been reconciled into the
\* displayed list, hasMoreNotes is false exactly when notes.length >= totalNotesCount.
C5_HasMoreIffIncomplete ==
  [][ ( \/ \E i \in 1..Len(inflight), legacy \in BOOLEAN :
             \E n \in {inflight[i].seen, serverCount[inflight[i].m]} : Resolve(i, n, legacy)
        \/ (pushes' # pushes /\ initialLoadDone /\ notes' # notes) )
      => (~hasMoreNotes' <=> NotesLen(notes') >= totalNotesCount') ]_vars

\* 'New Research Notes' toasts scheduled so far
ToastsScheduled == toastTimers + toasts

\* C6: when a push update for the viewed mission is reconciled after the initial
\* load, one toast is scheduled if the store holds at least 5 notes more than the
\* displayed list, and none otherwise.
C6_ToastThreshold ==
  [][ \A m \in Missions, k \in GrowSizes :
        (Push(m, k) /\ m = missionId /\ m = activeMission /\ initialLoadDone)
        => ToastsScheduled' - ToastsScheduled =
             IF NotesLen(storeNotes'[m]) - NotesLen(notes) >= NotificationThreshold
             THEN 1 ELSE 0 ]_vars

\* a push grew the displayed first page by exactly the threshold and scheduled a toast
C6_Witness ==
  /\ pushes > 0 /\ initialLoadDone /\ toastTimers = 1
  /\ notes = storeNotes[missionId]
  /\ NotesLen(notes) = PageSize + NotificationThreshold

\* what is displayed
ShownNow == [notes |-> notes, totalNotesCount |-> totalNotesCount,
             hasMoreNotes |-> hasMoreNotes]

\* the busy flag of a request's operation is cleared by the step
BusyFlagCleared(kind) == IF kind = "more" THEN ~isLoadingMore' ELSE ~isLoading'

\* C7 as stated, where nothing else has changed what is displayed since the request
\* was sent: when a notes fetch fails, the displayed notes, the total and the
\* has-more flag are what they were before the operation was invoked, and the
\* operation's busy flag is cleared.
C7_FailureRestoresEntryState ==
  [][ \A i \in 1..Len(inflight) :
        (Reject(i) /\ ShownNow = inflight[i].issued)
                  => /\ ShownNow' = inflight[i].entry
                     /\ BusyFlagCleared(inflight[i].kind) ]_vars

\* C7 amended: when a notes fetch fails, the displayed notes, the total and the
\* has-more flag are what they were immediately before the failure was handled, and
\* the operation's busy flag is cleared.
C7_FailureChangesOnlyBusyFlag ==
  [][ \A i \in 1..Len(inflight) :
        Reject(i) => /\ ShownNow' = ShownNow
                     /\ BusyFlagCleared(inflight[i].kind) ]_vars

\* a load-more failed after the first page was displayed: the page is still
\* displayed, nothing is in flight and no busy flag is set
C7_Witness ==
  /\ requests = 2 /\ failures = 1 /\ inflight = <<>> /\ ~isLoading /\ ~isLoadingMore
  /\ initialLoadDone /\ pushes = 0 /\ missionId = 1
  /\ notes = ServerSlice(missionId, serverCount[missionId], PageSize, 0)
  /\ hasMoreNotes /\ totalNotesCount = serverCount[missionId]

\* C9 as stated: the store's notes change only through push updates.
C9_StoreChangesOnlyByPush == [][storeNotes' # storeNotes => pushes' # pushes]_vars

\* C9 amended: the store's notes of a mission change only through a push update for
\* that mission or through the successful answer to a fetch of that mission's notes;
\* mounting, reconciliation, a mission switch, a click, a failed fetch and the timers
\* leave the store as it is.
C9_StoreChangesOnlyByPushOrFetchSuccess ==
  [][ \A m \in Missions :
        storeNotes'[m] # storeNotes[m]
        => \/ \E k \in GrowSizes : Push(m, k)
           \/ \E i \in 1..Len(inflight), legacy \in BOOLEAN :
                 \E n \in {inflight[i].seen, serverCount[inflight[i].m]} :
                    Resolve(i, n, legacy) /\ inflight[i].m = m ]_vars

\* without any push, the answered initial load has put the first page in the store
C9_Witness ==
  /\ pushes = 0 /\ failures = 0 /\ requests = 1 /\ inflight = <<>>
  /\ NotesLen(notes) > 0 /\ storeNotes[missionId] = notes

\* title of the error toast of a failed chat operation
FailureTitle(op) ==
  CASE op = "send"       -> "Chat Error"
    [] op = "regenerate" -> "Regeneration Error"
    [] op = "delete"     -> "Delete Failed"

\* the panel and the store after the step
ChatAfter ==
  [message |-> message', sessionLoading |-> sessionLoading', agentStatus |-> agentStatus',
   messages |-> messages', chatInflight |-> chatInflight', chatOps |-> chatOps',
   errorToasts |-> errorToasts', chatFailures |-> chatFailures', uncaught |-> uncaught']

\* C8: when a send, a regenerate or a delete fails, exactly one error toast, that of
\* the failed operation, is added; the rejection does not escape the handler; and
\* the panel can start a further send, regenerate or delete as soon as the store is
\* not loading.
C8_FailureToastsOnce ==
  [][ \A i \in 1..Len(chatInflight) :
        ChatReject(i)
        => /\ errorToasts' = Append(errorToasts, FailureTitle(chatInflight[i].op))
           /\ uncaught' = uncaught
           /\ message' = message
           /\ \A text \in MessageTexts, messageId \in MessageIds :
                 LET s == [ChatAfter EXCEPT !.message = text]
                 IN /\ (trim(text) # <<>> /\ ~chatIsLoading(s))
                          => Len(handleSendMessage(s).chatInflight) = Len(chatInflight') + 1
                    /\ Len(handleRegenerate(s, messageId).chatInflight) = Len(chatInflight') + 1
                    /\ Len(onDelete(s, messageId).chatInflight) = Len(chatInflight') + 1 ]_vars

\* a send failed with its one toast, and the next send is on its way
C8_Witness ==
  /\ chatFailures = 1 /\ errorToasts = <<"Chat Error">> /\ uncaught = 0
  /\ chatOps = 2 /\ Len(chatInflight) = 1 /\ chatInflight[1].op = "send"

\* the notes of the list the filter selects, by id
Selected(filter) ==
  {note.note_id : note \in {filteredNotes(notes, searchTerm, filter)[i] :
                              i \in 1..Len(filteredNotes(notes, searchTerm, filter))}}

\* C10: for every list of notes and every search term, no note is selected by both
\* the 'web' and the 'documents' filter: a note with a url is not in 'documents', a
\* note with a source and no url is not in 'web', a note with neither is in
\* neither; and the two filter counts never add up to more than the list.
C10_WebAndDocumentsDisjoint ==
  /\ Selected("web") \cap Selected("documents") = {}
  /\ \A i \in 1..Len(notes) :
        LET note == notes[i]
        IN /\ Truthy(note.url) => note.note_id \notin Selected("documents")
           /\ (Truthy(note.source) /\ ~Truthy(note.url)) => note.note_id \notin Selected("web")
           /\ (~Truthy(note.source) /\ ~Truthy(note.url))
                 => note.note_id \notin Selected("web") \cup Selected("documents")
  /\ getFilterCount("web") + getFilterCount("documents") <= Len(notes)

\* with a search term typed and 'documents' selected, a note with source and url is
\* in 'web' and a note with a source only is in 'documents'
C10_Witness ==
  /\ selectedFilter = "documents" /\ searchTerm # <<>>
  /\ \E i \in 1..Len(notes) :
        Truthy(notes[i].url) /\ Truthy(notes[i].source) /\ notes[i].note_id \in Selected("web")
  /\ Selected("documents") # {}

\* the entries of an exported text: its lines that are the '---' delimiter
DelimitedEntries(text) ==
  Cardinality({i \in 1..(Len(text) - 2) :
                 /\ SubSeq(text, i, i + 2) = Delimiter
                 /\ (i = 1 \/ text[i - 1] = "\n")
                 /\ (i + 2 = Len(text) \/ text[i + 3] = "\n")})

\* C11: every exported text holds exactly as many '---'-terminated entries as notes
\* were selected by the filter and the search when it was exported, and it is the
\* entries of those notes in displayed order.
C11_ExportHasOneEntryPerNote ==
  \A k \in 1..Len(downloads) :
     /\ DelimitedEntries(downloads[k].text) = Len(downloads[k].exported)
     /\ downloads[k].text = notesText(downloads[k].exported)

\* C12: once a notes fetch has failed, a request is issued only by a click on Load
\* More or Load All or by a change of the viewed mission; the failure itself, the
\* answers to other requests, push updates and timers issue none.
C12_NoAutomaticRetry ==
  [][ (failures' > 0 /\ requests' # requests)
      => \/ ClickLoadMore
         \/ ClickLoadAll
         \/ \E m \in Missions : SwitchMission(m) ]_vars

\* the initial load of the one mission viewed failed, and the only request in
\* flight is the load-all clicked afterwards
C12_Witness ==
  /\ failures = 1 /\ requests = 2 /\ pushes = 0 /\ missionId = 1
  /\ Len(inflight) = 1 /\ inflight[1].kind = "all"

\* C13: once 500 ms have passed since the last change of a tool setting made with a
\* chat active, each burst of such changes has produced exactly one PUT, and the
\* last PUT went to that chat 500 ms after the change with the values of the
\* change; before that, no burst has produced more than one PUT.
C13_OnePutPerBurst ==
  /\ Len(puts) <= bursts
  /\ (lastChange # <<>> /\ now > lastChange[1].at + DebounceDelay)
        => /\ Len(puts) = bursts
           /\ puts[Len(puts)].chat = lastChange[1].chat
           /\ puts[Len(puts)].tools = lastChange[1].tools
           /\ puts[Len(puts)].at = lastChange[1].at + DebounceDelay

C15_RestoresOffsetBeforeItsReplacement ==
  [][ RestoreTimerFires => scrollTop' = Head(restoreTimers) ]_vars

\* C15 (amended): when a deferred restore runs, the scroll offset becomes the
\* offset the container had immediately before the most recent replacement, so
\* a user scroll made since then is undone and, when a second replacement came
\* before the first restore, both restores set the offset saved by the second.
C15_RestoresOffsetBeforeLatestReplacement ==
  [][ RestoreTimerFires => scrollTop' = restoreTimers[Len(restoreTimers)] ]_vars

\* two push updates have each replaced the displayed list of a scrolled container
\* and both deferred restores have run
C15_Witness ==
  /\ pushes = 2 /\ initialLoadDone /\ restoreTimers = <<>>
  /\ NotesLen(notes) - 2 \in InitCounts
  /\ scrollTop # 0 /\ scrollTop = lastScrollPosition

\* C16: a load-more request asks for PageSize notes at an offset equal to the
\* number of notes displayed when it is issued, and when it succeeds the displayed
\* list is the list displayed at issue followed by the returned page, with the
\* total and the has-more flag taken from the response.
C16_LoadMoreAppendsPageToIssuedList ==
  [][ /\ (ClickLoadMore /\ requests' # requests)
         => LET r == inflight'[Len(inflight')]
            IN r.kind = "more" /\ r.limit = 100 /\ r.offset = NotesLen(notes)
      /\ \A i \in 1..Len(inflight), legacy \in BOOLEAN :
           \A n \in {inflight[i].seen, serverCount[inflight[i].m]} :
             (Resolve(i, n, legacy) /\ inflight[i].kind = "more")
             => LET r    == inflight[i]
                    data == ServerResponse(r, n, legacy)
                    size == r.currentLength + NotesLen(data.notes)
                IN /\ notes' = Concat(r.issued.notes, data.notes)
                   /\ totalNotesCount' = DataTotal(data, size)
                   /\ hasMoreNotes' = DataHasMore(data, DataTotal(data, size) > size) ]_vars

\* two characters that are the same letter in either case
SameLetter(x, y) ==
  \/ x = y
  \/ {x, y} = {"a", "A"}
  \/ {x, y} = {"b", "B"}

\* text holds term at some position, letter by letter, ignoring case
ContainsIgnoringCase(text, term) ==
  \E k \in 0..(Len(text) - Len(term)) :
     \A j \in 1..Len(term) : SameLetter(text[k + j], term[j])

\* the notes the filtered list has to hold, by position in the loaded list
Matching(list, term, filter) ==
  {i \in 1..Len(list) :
     /\ CASE filter = "all"       -> TRUE
          [] filter = "web"       -> Truthy(list[i].url)
          [] filter = "documents" -> Truthy(list[i].source) /\ ~Truthy(list[i].url)
     /\ \/ ContainsIgnoringCase(list[i].content, term)
        \/ \E s \in list[i].source \cup list[i].url : ContainsIgnoringCase(s, term)}

\* C17: changing the search term or the category filter changes neither the loaded
\* notes, the total, the has-more flag nor the store; and the filtered list is the
\* loaded list restricted, in order, to exactly the notes that match the category
\* and hold the term, ignoring case, in content, source or url (every note for the
\* empty term and 'all').
C17_FilteringIsDerived ==
  /\ [](LET filtered == filteredNotes(notes, searchTerm, selectedFilter)
            matching == Matching(notes, searchTerm, selectedFilter)
        IN /\ {filtered[j].note_id : j \in 1..Len(filtered)} = matching
           /\ Len(filtered) = Cardinality(matching)
           /\ \A j \in 1..Len(filtered) : filtered[j] = notes[filtered[j].note_id]
           /\ \A j \in 1..(Len(filtered) - 1) : filtered[j].note_id < filtered[j + 1].note_id
           /\ (searchTerm = <<>> /\ selectedFilter = "all") => filtered = notes)
  /\ [][ ((\E term \in SampleTexts : setSearchTerm(term))
          \/ (\E filter \in Filters : setSelectedFilter(filter)))
         => /\ notes' = notes /\ totalNotesCount' = totalNotesCount
            /\ hasMoreNotes' = hasMoreNotes /\ storeNotes' = storeNotes ]_vars

\* the term 'a' and the filter 'web' keep a note with a url whose content holds 'A'
\* and drop another note
C17_Witness ==
  /\ searchTerm = <<"a">> /\ selectedFilter = "web"
  /\ LET filtered == filteredNotes(notes, searchTerm, selectedFilter)
     IN /\ Len(filtered) = 1 /\ Len(notes) = 2
        /\ filtered[1].content = <<"A", "b">> /\ filtered[1] = notes[2]

\* C18: a 'New Research Notes' toast is scheduled only by a step that delivers a
\* push update to the store; no completion of an initial load, a load-more or a
\* load-all, and no other step of the view, schedules one.
C18_ToastOnlyOnPush ==
  [][ ToastsScheduled' > ToastsScheduled => pushes' # pushes ]_vars

\* every note of the list belongs to mission m
NotesOf(list, m) == \A j \in 1..Len(list) : list[j].m = m

\* C19: once no fetch is in flight, the displayed notes and the store's entry for
\* the viewed mission hold notes of the viewed mission only and the total is one the
\* viewed mission can have; and the response to a request issued for another
\* mission never marks the viewed mission's initial load as done.
C19_StaleResponsesLeaveNoTrace ==
  /\ []((Mounted /\ inflight = <<>>)
        => /\ NotesOf(notes, missionId)
           /\ totalNotesCount <= serverCount[missionId]
           /\ storeNotes[missionId] # Undefined => NotesOf(storeNotes[missionId], missionId))
  /\ [][ \A i \in 1..Len(inflight), legacy \in BOOLEAN :
           \A n \in {inflight[i].seen, serverCount[inflight[i].m]} :
             (Resolve(i, n, legacy) /\ inflight[i].m # missionId /\ ~initialLoadDone)
             => ~initialLoadDone' ]_vars

\* the identifiers of the notes of a list
NoteIds(list) == {Expand(list)[j] : j \in 1..NotesLen(list)}

\* C20: while one mission stays viewed, the completion of an initial load, a
\* load-more or a load-all removes no note from the displayed list and none from
\* the store's list for the mission, whatever push updates came before it.
C20_DisplayedNotesStay ==
  [][ \A i \in 1..Len(inflight), legacy \in BOOLEAN :
        \A n \in {inflight[i].seen, serverCount[inflight[i].m]} :
          Resolve(i, n, legacy)
          => /\ NoteIds(notes) \subseteq NoteIds(notes')
             /\ storeNotes[missionId] # Undefined
                  => NoteIds(storeNotes[missionId]) \subseteq NoteIds(storeNotes'[missionId]) ]_vars

\* C21: a switch of the active chat to another chat leaves no save timer pending
\* and issues no PUT; a save timer is pending only for the last change the user
\* made, set while the loading flag was off, and a PUT is issued only when that
\* timer fires.
C21_ChatSwitchIssuesNoPut ==
  /\ [](saveTimer # <<>>
        => /\ lastChange # <<>>
           /\ ~isLoadingChatSettings
           /\ saveTimer[1].due = lastChange[1].at + DebounceDelay
           /\ saveTimer[1].chat = lastChange[1].chat
           /\ saveTimer[1].tools = lastChange[1].tools)
  /\ [][ /\ (\E c \in Chats : SetActiveChat(c))
            => saveTimer' = <<>> /\ puts' = puts
         /\ puts' # puts => SaveTimerFires ]_vars

\* the user changed a setting of one chat and switched to another within 500 ms;
\* long after, no PUT has been issued for either
C21_Witness ==
  /\ activeChat # NoChat /\ lastChange # <<>> /\ lastChange[1].chat # activeChat
  /\ now >= lastChange[1].at + DebounceDelay + SettingsLoadDelay
  /\ saveTimer = <<>> /\ loadTimers = {} /\ puts = <<>>

\* the last change the user made has been sent in a PUT to its chat
LastChangePersisted ==
  \E k \in 1..Len(puts) :
     /\ puts[k].chat = lastChange[1].chat
     /\ puts[k].tools = lastChange[1].tools
     /\ puts[k].at >= lastChange[1].at

\* C22: the last tool-setting change the user made with a chat active, when made
\* at least 500 ms before the end of the time observed, is eventually sent in a PUT
\* to that chat with the values of the change.
C22_EveryChangeIsPersisted ==
  []<>(\/ lastChange = <<>>
       \/ lastChange[1].at + DebounceDelay > MaxTicks * Tick
       \/ LastChangePersisted)

\* C23: when a settings PUT resolves, the store's active chat stays the one it
\* was, and when the PUT was for another chat the active chat's saved settings
\* stay as they were.
C23_SaveKeepsActiveChat ==
  [][ \A i \in 1..Len(putInflight) :
        PutResolve(i)
        => /\ activeChat' = activeChat
           /\ (putInflight[i].chat # activeChat /\ activeChat # NoChat)
                 => chatTools'[activeChat] = chatTools[activeChat] ]_vars

\* all notes of the viewed mission are displayed, each once, and nothing is pending
AllNotesDisplayed ==
  /\ ~hasMoreNotes /\ inflight = <<>>
  /\ notes = ServerSlice(missionId, serverCount[missionId], serverCount[missionId], 0)

\* C24: against a fixed note set answered with correct total and has_more,
\* invoking load-more again and again leads to has-more false with all N notes
\* displayed, for good; and once has-more is false neither load-more nor load-all
\* issues a request.
C24_LoadMoreTerminates ==
  /\ <>[]AllNotesDisplayed
  /\ [][ (~hasMoreNotes /\ (InvokeLoadMore \/ InvokeLoadAll))
         => requests' = requests /\ inflight' = inflight ]_vars

\* 205 notes have been displayed by the initial load and two load-mores
C24_Witness ==
  /\ AllNotesDisplayed /\ NotesLen(notes) = 205 /\ requests = 3

OneInitialFetchPerMission ==
  /\ \A m \in Missions :
        SwitchMission(m)
        => /\ requests' = requests + 1
           /\ Len(inflight') = Len(inflight) + 1
           /\ LET r == inflight'[Len(inflight')]
              IN r.kind = "initial" /\ r.m = m /\ r.limit = 100 /\ r.offset = 0
  /\ ReinvokeInitialLoad => UNCHANGED vars

C27_BusyFlagsTrackFetches ==
  /\ isLoading <=> (InFlight("initial") \/ InFlight("all"))
  /\ isLoadingMore <=> InFlight("more")

\* the options a send or a regenerate has to pass: the deep-search limits when
\* deep search is on, the normal ones otherwise
ExpectedOptions ==
  LET limits == IF searchSettings.deepSearch
                THEN <<searchSettings.deepSearchIterations, searchSettings.deepSearchQueries>>
                ELSE <<searchSettings.maxIterations, searchSettings.maxQueries>>
  IN [documentGroupId |-> selectedGroupId,
      useWebSearch |-> searchSettings.useWebSearch,
      deepSearch |-> searchSettings.deepSearch,
      maxIterations |-> limits[1],
      maxQueries |-> limits[2]]

\* C28: a message is handed to the store only when its trimmed text is not empty
\* and the panel is not loading; the call carries the trimmed text and the
\* options with the deep-search limits when deep search is on and the normal
\* limits otherwise, and the input is cleared; a regenerate carries the same
\* options; and a send with nothing to send leaves the panel as it is.
C28_SendConditionsAndOptions ==
  [][ /\ Len(chatInflight') > Len(chatInflight)
         => LET call == chatInflight'[Len(chatInflight')]
            IN /\ call.options = <<ExpectedOptions>>
               /\ call.op = "send"
                    => /\ trim(message) # <<>> /\ ~chatIsLoading(ChatCur)
                       /\ call.arg = trim(message)
                       /\ message' = <<>>
      /\ (PressSend /\ (trim(message) = <<>> \/ chatIsLoading(ChatCur)))
         => UNCHANGED vars ]_vars

\* a message was sent trimmed with a document group selected and deep search on:
\* the deep-search limits were passed
C28_Witness ==
  /\ message = <<>> /\ Len(chatInflight) = 1 /\ chatInflight[1].op = "send"
  /\ chatInflight[1].arg = <<"a">>
  /\ searchSettings.deepSearch /\ searchSettings.maxIterations = 1
  /\ chatInflight[1].options[1].deepSearch
  /\ chatInflight[1].options[1].documentGroupId # NoGroup
  /\ chatInflight[1].options[1].maxIterations = 3
  /\ chatInflight[1].options[1].maxQueries = 5

\* deep search requested with nothing to search: web search off and no group
DeepSearchWithoutSource(tools) ==
  tools.deepSearch /\ ~tools.useWebSearch /\ tools.documentGroupId = NoGroup

\* C29: whatever the user toggles and selects, no settings PUT and no message sent
\* carries deepSearch true while web search is off and no document group is selected
C29_DeepSearchNeedsSource ==
  /\ \A i \in 1..Len(puts) : ~DeepSearchWithoutSource(puts[i].tools)
  /\ \A i \in 1..Len(chatInflight) :
        chatInflight[i].options # <<>> => ~DeepSearchWithoutSource(chatInflight[i].options[1])

\* C30: a save PUTs the chat's other settings keys as the store holds them, with the
\* tools the panel showed; its success stores exactly what was sent and changes no
\* other key and no other chat's settings, and its failure changes no chat's settings
C30_SaveReplacesToolsOnly ==
  /\ [](\A i \in 1..Len(puts) : puts[i].keys = chatKeys[puts[i].chat])
  /\ [][ /\ chatKeys' = chatKeys
         /\ \A i \in 1..Len(putInflight) :
               /\ PutResolve(i) =>
                     /\ chatTools'[putInflight[i].chat] = <<putInflight[i].tools>>
                     /\ \A c \in Chats \ {putInflight[i].chat} : chatTools'[c] = chatTools[c]
               /\ PutReject(i) => chatTools' = chatTools ]_vars

\* a save of the chat that has other settings keys was answered: the store holds
\* the tools sent next to those keys
C30_Witness ==
  /\ Len(puts) = 1 /\ putInflight = <<>>
  /\ puts[1].chat = 1 /\ puts[1].keys = {<<"k", "v">>}
  /\ chatKeys[1] = {<<"k", "v">>}
  /\ chatTools[1] = <<puts[1].tools>>
  /\ puts[1].tools.useWebSearch

\* C31: a context request for a mission is issued only in a render of that mission
\* made while the store holds no context for it, before and after the step; a
\* mission whose context is in the store is never requested
C31_FetchOnlyWithoutContext ==
  [][ \A m \in Missions :
         contextFetches'[m] # contextFetches[m]
         => /\ contextFetches'[m] = contextFetches[m] + 1
            /\ tabsMissionId' = m
            /\ missionContexts[m] = <<>>
            /\ missionContexts'[m] = <<>> ]_vars

\* the first mission's context was pushed before it was shown: it is shown and
\* was never requested; the second mission's context was requested once and is held
C31_Witness ==
  /\ tabsMissionId = 1 /\ missionContexts[1] = <<"pushed">> /\ contextFetches[1] = 0
  /\ missionContexts[2] = <<"fetched">> /\ contextFetches[2] = 1
  /\ contextInflight = [m \in Missions |-> 0]

\* C32: toggling the expansion of a log index flips the membership of exactly that
\* index in the expanded set, toggling it again would restore the set, and the
\* arrival of appended log entries leaves the expanded set as it is
C32_ToggleFlipsOneIndex ==
  [][ /\ \A index \in 0..(MaxLogs - 1) :
            ToggleLog(index)
            => /\ (index \in expandedLogs') = (index \notin expandedLogs)
               /\ \A other \in (0..(MaxLogs - 1)) \ {index} :
                     (other \in expandedLogs') = (other \in expandedLogs)
               /\ expandedLogs' \subseteq 0..(MaxLogs - 1)
               /\ toggleLogExpansion(expandedLogs', index) = expandedLogs
      /\ \A k \in 1..MaxLogs : AppendLogs(k) => expandedLogs' = expandedLogs ]_vars

\* of the two entries shown the second is expanded and the first is not
C32_Witness ==
  /\ Len(logs) = 2 /\ expandedLogs = {1}

\* C33: the Load More button is shown exactly when a load-more handler is supplied
\* and either hasMore is true or a positive total exceeds the number of loaded
\* entries; when shown it is disabled exactly while a load-more is in progress;
\* the Load All button is shown only when hasMore is true
C33_LoadControlsFollowProps ==
  LET offered == logControls.loadMore # "hidden"
  IN /\ offered <=> /\ logProps.onLoadMore
                    /\ \/ logProps.hasMore
                       \/ (logProps.totalLogs > 0 /\ logProps.totalLogs > Len(logs))
     /\ offered => ((logControls.loadMore = "disabled") <=> logProps.isLoadingMore)
     /\ logControls.loadAll # "hidden" => logProps.hasMore

\* with one entry loaded of a larger total and hasMore false, no load in progress:
\* Load More is shown enabled and Load All is not shown
C33_Witness ==
  /\ Len(logs) = 1 /\ logProps.totalLogs > 1 /\ ~logProps.hasMore
  /\ logProps.onLoadMore /\ logProps.onLoadAll /\ ~logProps.isLoadingMore
  /\ logControls = [loadMore |-> "enabled", loadAll |-> "hidden"]

====
